---- MODULE Spec2Model ----
(***************************************************************************)
(* A model of the Zoom Phone -> FileMaker webhook bridge (src/server.js).  *)
(*                                                                         *)
(* Node runs one callback at a time and drains the promise continuations   *)
(* of a callback before the next I/O callback starts, so the only places   *)
(* where two flows interleave are the awaited network calls (axios).       *)
(* Every action below is therefore one run of code from the completion of  *)
(* an external call (or the arrival of a request, a cron tick, a signal)   *)
(* to the issue of the next external call or to the response.  The clock   *)
(* does not advance inside such a run.                                     *)
(*                                                                         *)
(* The external database applies a call and answers it in one step; which  *)
(* calls of the request tasks it rejects is its own choice, bounded by     *)
(* MaxFailures.  A successful login always carries a token.                *)
(***************************************************************************)
EXTENDS Integers, Sequences, FiniteSets, TLC

VARIABLES
    fmToken,          \* server.js:12  the stored bearer token, Null when absent
    tokenExpiryTime,  \* server.js:13  the stored expiry, Null when absent
    now,              \* Date.now(), in ticks of one lease
    nextTok,          \* the number of sessions the database has handed out
    loginAt,          \* Date.now() as read by the login that stored the session
    db,               \* the database's records, in creation order
    failures,         \* how many calls of request tasks the database rejected
    deliveries,       \* how many webhook requests have arrived
    slot,             \* the request tasks in flight, oldest first: position and locals
    done,             \* the task this step finished, NoTask when it finished none
    term,             \* the SIGTERM handler: its logout and the exit
    deleting,         \* the token in the URL of logout's DELETE in flight
    metered,          \* whether the run counts rejections, sessions and calls
    audit             \* whether the request tasks count their own calls

vars == <<fmToken, tokenExpiryTime, now, nextTok, loginAt, db, failures,
          deliveries, slot, done, term, deleting, metered, audit>>

----------------------------------------------------------------------------
(* Bounds of the model. *)

MaxDeliveries == 2   \* webhook requests delivered in one run
MaxFailures == 2     \* calls of request tasks the database rejects in one run
MaxLogins == 2       \* sessions the database hands out in one run
MaxTime == 2         \* the last clock tick

(* Date.now() + (14 * 60 * 1000): the lease, in ticks of fourteen minutes. *)
LeaseDuration == 1

Null == 0
Slots == {1, 2}      \* request tasks that may be in flight together
CallIds == {1}       \* the call ids the platform sends
NoCallId == 0        \* payload.call_id || payload.id is undefined or ""

----------------------------------------------------------------------------
(* The inbound request. *)

UrlValidation == "endpoint.url_validation"
CompletedFamily == {"phone.call_log_created",
                    "phone.caller_call_log_completed",
                    "phone.callee_call_log_completed"}
Missed == "phone.callee_missed"
Unrecognized == "phone.recording_completed"
Recognized == CompletedFamily \cup {Missed}
Events == {UrlValidation, Unrecognized} \cup Recognized

SecretToken == "ZOOM_WEBHOOK_SECRET_TOKEN"
Keys == {SecretToken, "another secret"}
Timestamp == 1
PlainToken == "plain"

(* HMAC-SHA256, hex: an injective digest of (key, message). *)
Hmac(key, message) == <<"hmac", key, message>>

Signature(key, timestamp, body) == <<"v0=", Hmac(key, <<"v0", timestamp, body>>)>>

NoHeader == <<>>

(* The bodies a sender may post.  shape is what the raw body parses to:    *)
(* "notjson" makes JSON.parse throw, "nopayload" is an event without       *)
(* payload, "noobject" an event whose payload has no object, "ok" an event *)
(* as the platform sends it.                                               *)
Bodies ==
    {[shape |-> "notjson", event |-> "none", callId |-> NoCallId]}
    \cup [shape : {"nopayload"}, event : {UrlValidation, Missed, Unrecognized},
          callId : {NoCallId}]
    \cup [shape : {"noobject"},
          event : {"phone.call_log_created", Missed, Unrecognized},
          callId : {NoCallId}]
    \cup [shape : {"ok"}, event : {UrlValidation, Unrecognized}, callId : {NoCallId}]
    \cup [shape : {"ok"}, event : Recognized, callId : {NoCallId} \cup CallIds]

(* The x-zm-signature headers a sender may attach to a body posted with    *)
(* x-zm-request-timestamp t: none, the platform's signature, a signature  *)
(* made with another key, and a signature made over another timestamp.    *)
SignaturesOf(b, t) ==
    {NoHeader} \cup { Signature(k, t, b) : k \in Keys }
               \cup { Signature(SecretToken, t + 1, b) }

Requests ==
    UNION { { [body |-> b, timestamp |-> Timestamp, signature |-> g] :
                g \in SignaturesOf(b, Timestamp) } : b \in Bodies }

verifyZoomWebhook(req) ==
    Signature(SecretToken, req.timestamp, req.body) = req.signature

----------------------------------------------------------------------------
(* The session. *)

(* ensureValidToken with > for >=: no login at the instant of expiry. *)
NeedsLoginAfterExpiry(tok, exp) == tok = Null \/ now > exp

(* ensureValidToken without the test of the expiry. *)
NeedsLoginIgnoringExpiry(tok, exp) == tok = Null

(* ensureValidToken's test: !fmToken || Date.now() >= tokenExpiryTime *)
NeedsLogin(tok, exp) == tok = Null \/ now >= exp

(* Date.now() + (14 * 60 * 1000) *)
LoginExpiry == now + LeaseDuration

(* A counter of a metered run; an unmetered run, which may go on for ever, *)
(* counts nothing.                                                        *)
Count(n) == IF metered THEN n + 1 ELSE n

(* A counter in a task's record of its own history. *)
Tally(n) == IF audit THEN n + 1 ELSE n

(* response.headers['x-fm-data-access-token']: a token the database has    *)
(* not handed out before (in an unmetered run: not the one stored).        *)
NewToken == IF metered THEN nextTok + 1 ELSE IF fmToken = 1 THEN 2 ELSE 1

(* A login that stores the token and leaves the expiry as it was. *)
LoginStoreTokenOnly ==
    /\ metered => nextTok < MaxLogins
    /\ nextTok' = Count(nextTok)
    /\ fmToken' = NewToken
    /\ tokenExpiryTime' = tokenExpiryTime
    /\ loginAt' = now

(* login's two assignments on a successful response. *)
LoginStore ==
    /\ metered => nextTok < MaxLogins
    /\ nextTok' = Count(nextTok)
    /\ fmToken' = NewToken
    /\ tokenExpiryTime' = LoginExpiry
    /\ loginAt' = now

(* A rejected external call: HTTP 401, or any other error. *)
Rejections == {"unauth", "other"}

Reject ==
    /\ metered => failures < MaxFailures
    /\ failures' = Count(failures)

----------------------------------------------------------------------------
(* One request task of app.post('/zoom-webhook'). *)

IdleSlot ==
    [ pc |-> "idle",        \* "idle", "try", "login" (awaiting login), "call"
      kind |-> "",          \* the request: the kind of its body.event,
      shape |-> "",         \*   the shape of its body,
      verified |-> FALSE,   \*   and whether its signature verifies
      branch |-> "none",    \* the case of switch (event) that was taken
      cid |-> NoCallId,     \* payload.call_id || payload.id
      op |-> "none",        \* the FileMakerAPI method running: find, create, update
      via |-> "none",       \* who awaits the login: ensureValidToken or a catch block
      rid |-> 0, mod |-> 0, \* existingRecord.recordId and .modId (0: no match)
      tokOk |-> TRUE,       \* every call of this task carried a live token
      had |-> FALSE,        \* a record with this call id existed at arrival
      nFind |-> 0, nCreate |-> 0, nUpdate |-> 0,
      wLogin |-> 0,         \* logins issued inside the write method
      relog |-> 0,          \* of those, the ones issued by its catch block
      unauth |-> 0,         \* 401 answers to the call of the method running
      wFail |-> 0,          \* rejected external calls inside the write method
      wOther |-> FALSE,     \* the write call was rejected with a non-401 error
      startValid |-> FALSE, \* the write method started with a live session
      status |-> 0,         \* the response status (0: none sent)
      body |-> <<>> ]       \* the response body

NoTask == IdleSlot

Writes == {"create", "update"}

Respond(sl, status, body) ==
    [sl EXCEPT !.pc = "idle", !.status = status, !.body = body]

(* An exception that escapes the async handler: Express 4 sends nothing. *)
Unhandled(sl) == [sl EXCEPT !.pc = "idle", !.body = <<"unhandled rejection">>]

(* The handler's catch block, server.js:315-318. *)
HandlerCatch(sl) == Respond(sl, 500, <<"Internal Server Error">>)

(* axios.post / axios.patch with `Bearer ${fmToken}`. *)
Issue(sl, op, tok, exp) ==
    [sl EXCEPT !.pc = "call", !.op = op,
               !.tokOk = @ /\ tok # Null /\ now < exp,
               !.nFind = IF op = "find" THEN Tally(@) ELSE @,
               !.nCreate = IF op = "create" THEN Tally(@) ELSE @,
               !.nUpdate = IF op = "update" THEN Tally(@) ELSE @]

(* this.login() awaited by `via`. *)
AwaitLogin(sl, op, via) ==
    [sl EXCEPT !.pc = "login", !.op = op, !.via = via,
               !.wLogin = IF op \in Writes THEN Tally(@) ELSE @,
               !.relog = IF via = "catch" THEN Tally(@) ELSE @]

(* The head of createRecord, findRecord and updateRecord:            *)
(* await this.ensureValidToken(), then the call.                     *)
Begin(sl, op, tok, exp) ==
    IF NeedsLogin(tok, exp) THEN AwaitLogin(sl, op, "ensure")
    ELSE Issue(sl, op, tok, exp)

(* server.js:300-311: updateRecord when a match was found, else createRecord. *)
StartWrite(sl, tok, exp) ==
    LET op == IF sl.rid # 0 THEN "update" ELSE "create"
    IN  Begin([sl EXCEPT !.startValid = ~NeedsLogin(tok, exp)], op, tok, exp)

(* A switch whose default case builds a record as the missed case does. *)
SwitchMissedByDefault(event) ==
    IF event \in CompletedFamily THEN "completed" ELSE "missed"

(* switch (event), server.js:257-298. *)
Switch(event) ==
    IF event \in CompletedFamily THEN "completed"
    ELSE IF event = Missed THEN "missed"
    ELSE "default"

(* What body.event names: the handshake, a call event that makes a record, *)
(* another event, or nothing (the body has no event).                      *)
Kind(event) ==
    IF event = UrlValidation THEN "handshake"
    ELSE IF event \in Recognized THEN "call"
    ELSE IF event \in Events THEN "other"
    ELSE "none"

Challenge == <<PlainToken, Hmac(SecretToken, PlainToken)>>

(* server.js:247-298: the try block up to the lookup.  A task that goes on *)
(* to the database keeps the case it took and its call id.                 *)
TryEntry(rd, b) ==
    IF b.shape = "nopayload" THEN HandlerCatch(rd)
    ELSE IF Switch(b.event) = "default" THEN Respond(rd, 200, <<"OK">>)
    ELSE IF b.shape = "noobject" THEN HandlerCatch(rd)
    ELSE [rd EXCEPT !.pc = "try", !.branch = Switch(b.event), !.cid = b.callId]

(* A handler without the signature check of server.js:242-245. *)
EntrySkipVerification(req) ==
    LET b  == req.body
        rd == [IdleSlot EXCEPT !.kind = Kind(b.event), !.shape = b.shape,
                               !.verified = verifyZoomWebhook(req)]
    IN  IF b.shape = "notjson" THEN Unhandled(rd)
        ELSE IF b.event = UrlValidation THEN
            IF b.shape = "nopayload" THEN Unhandled(rd)
            ELSE Respond(rd, 200, Challenge)
        ELSE TryEntry(rd, b)

(* A handler that checks the signature before it looks at the event. *)
EntryVerifyFirst(req) ==
    LET b  == req.body
        rd == [IdleSlot EXCEPT !.kind = Kind(b.event), !.shape = b.shape,
                               !.verified = verifyZoomWebhook(req)]
    IN  IF b.shape = "notjson" THEN Unhandled(rd)
        ELSE IF ~verifyZoomWebhook(req)
            THEN Respond(rd, 401, <<"Unauthorized">>)
        ELSE IF b.event = UrlValidation THEN
            IF b.shape = "nopayload" THEN Unhandled(rd)
            ELSE Respond(rd, 200, Challenge)
        ELSE TryEntry(rd, b)

(* server.js:225-245, then the try block: what the handler does with a     *)
(* request before it needs the session.                                    *)
Entry(req) ==
    LET b  == req.body
        rd == [IdleSlot EXCEPT !.kind = Kind(b.event), !.shape = b.shape,
                               !.verified = verifyZoomWebhook(req)]
    IN  IF b.shape = "notjson" THEN Unhandled(rd)
        ELSE IF b.event = UrlValidation THEN
            IF b.shape = "nopayload" THEN Unhandled(rd)
            ELSE Respond(rd, 200, Challenge)
        ELSE IF ~verifyZoomWebhook(req)
            THEN Respond(rd, 401, <<"Unauthorized">>)
        ELSE TryEntry(rd, b)

Entries == { Entry(req) : req \in Requests }

HasRecord(c) == \E i \in 1..Len(db) : db[i].call_id = c

(* server.js:261-268 and 300-311: the lookup when there is a call id in the *)
(* completed family, else the write.                                       *)
Start(e, tok, exp) ==
    LET sl == [e EXCEPT !.had = HasRecord(e.cid)]
    IN  IF e.branch = "completed" /\ e.cid # NoCallId
        THEN Begin(sl, "find", tok, exp)
        ELSE StartWrite(sl, tok, exp)

Running == term # "exited"

InFlight(s) == slot[s].pc # "idle"

(* The tasks in flight without the one at s. *)
Without(s) ==
    [o \in Slots |-> IF o < s THEN slot[o]
                     ELSE IF o + 1 \in Slots THEN slot[o + 1]
                     ELSE IdleSlot]

(* The task moves on as `sl`; a task that has answered (or died) is recorded *)
(* in done and leaves the tasks in flight.                                  *)
Settle(s, sl) ==
    IF sl.pc = "idle"
    THEN slot' = Without(s) /\ done' = sl
    ELSE slot' = [slot EXCEPT ![s] = sl] /\ done' = NoTask

(* Express starts a task for a request, the youngest in flight.  The        *)
(* handler runs up to its first awaited call.                              *)
Arrive(s) ==
    /\ Running
    /\ ~InFlight(s)
    /\ \A o \in Slots : o < s => InFlight(o)
    /\ deliveries < MaxDeliveries
    /\ deliveries' = deliveries + 1
    /\ \E e \in Entries :
         LET sl == IF e.pc = "try" THEN Start(e, fmToken, tokenExpiryTime) ELSE e
         IN  Settle(s, sl)
    /\ UNCHANGED <<metered, audit, deleting, fmToken, tokenExpiryTime, now,
                   nextTok, loginAt, db, failures, term>>

(* Catch blocks that log and rethrow every error, a 401 included. *)
MethodCatchRethrow(sl, kind) == HandlerCatch(sl)

(* Catch blocks that log in and call the method again on any error. *)
MethodCatchRetryAll(sl, kind) ==
    IF sl.op \in Writes
    THEN AwaitLogin(sl, sl.op, "catch")
    ELSE HandlerCatch(sl)

(* The catch blocks of createRecord (82-91) and updateRecord (145-153), and  *)
(* of findRecord (115-120), for an error `kind` thrown inside their try.    *)
(* FileMaker's "no records match" (error code "401") is FindCatch's case,   *)
(* not an error here: an HTTP 401 carries the code 952 or 212, never "401". *)
MethodCatch(sl, kind) ==
    IF sl.op \in Writes /\ kind = "unauth"
    THEN AwaitLogin(sl, sl.op, "catch")
    ELSE HandlerCatch(sl)

(* The task's login answered: ensureValidToken returns and the call is       *)
(* issued, or the catch block calls the method again.                       *)
LoginOk(s) ==
    /\ Running
    /\ slot[s].pc = "login"
    /\ LoginStore
    /\ Settle(s, IF slot[s].via = "ensure"
                 THEN Issue(slot[s], slot[s].op, fmToken', tokenExpiryTime')
                 ELSE Begin(slot[s], slot[s].op, fmToken', tokenExpiryTime'))
    /\ UNCHANGED <<metered, audit, deleting, now, db, failures, deliveries,
                   term>>

LoginFail(s) ==
    /\ Running
    /\ slot[s].pc = "login"
    /\ Reject
    /\ \E kind \in Rejections :
         LET sl == [slot[s] EXCEPT !.wFail = IF slot[s].op \in Writes THEN Tally(@) ELSE @]
         IN  Settle(s, IF sl.via = "ensure" THEN MethodCatch(sl, kind)
                       ELSE HandlerCatch(sl))
    /\ UNCHANGED <<metered, audit, deleting, fmToken, tokenExpiryTime, now,
                   nextTok, loginAt, db, deliveries, term>>

(* A lookup that never matches. *)
FindNothing(c) == 0

(* The _find query {call_id: callId}, limit 1: the first match, or none. *)
Find(c) ==
    IF HasRecord(c) THEN CHOOSE i \in 1..Len(db) :
                            db[i].call_id = c /\ \A j \in 1..(i - 1) : db[j].call_id # c
    ELSE 0

(* A findRecord whose catch rethrows the "no records match" error too. *)
FindCatchRethrows(sl, tok, exp) == HandlerCatch(sl)

(* findRecord's catch for the error code "401", server.js:116-118: it      *)
(* returns [], records.length is 0 and the handler goes on to its write    *)
(* with no existingRecord.                                                 *)
FindCatch(sl, tok, exp) ==
    StartWrite([sl EXCEPT !.rid = 0, !.mod = 0], tok, exp)

(* The database answers a find that matches nothing with the error code    *)
(* "401" (no records match).                                               *)
FindNone(s) ==
    /\ Running
    /\ slot[s].pc = "call" /\ slot[s].op = "find"
    /\ Find(slot[s].cid) = 0
    /\ Settle(s, FindCatch(slot[s], fmToken, tokenExpiryTime))
    /\ UNCHANGED <<metered, audit, deleting, fmToken, tokenExpiryTime, now,
                   nextTok, loginAt, db, failures, deliveries, term>>

(* The database answers a find with the first record that matches. *)
FindOk(s) ==
    /\ Running
    /\ slot[s].pc = "call" /\ slot[s].op = "find"
    /\ Find(slot[s].cid) # 0
    /\ LET i  == Find(slot[s].cid)
           sl == [slot[s] EXCEPT !.rid = i,
                                 !.mod = db[i].modId]
       IN  Settle(s, StartWrite(sl, fmToken, tokenExpiryTime))
    /\ UNCHANGED <<metered, audit, deleting, fmToken, tokenExpiryTime, now,
                   nextTok, loginAt, db, failures, deliveries, term>>

(* A create that the database applies only while no record holds the call *)
(* id: a uniqueness constraint on call_id.                                *)
CreateOkIfAbsent(s) ==
    /\ Running
    /\ slot[s].pc = "call" /\ slot[s].op = "create"
    /\ ~HasRecord(slot[s].cid)
    /\ db' = Append(db, [call_id |-> slot[s].cid, modId |-> 0,
                         by |-> slot[s].branch])
    /\ Settle(s, Respond(slot[s], 200, <<"OK">>))
    /\ UNCHANGED <<metered, audit, deleting, fmToken, tokenExpiryTime, now,
                   nextTok, loginAt, failures, deliveries, term>>

CreateOk(s) ==
    /\ Running
    /\ slot[s].pc = "call" /\ slot[s].op = "create"
    /\ db' = Append(db, [call_id |-> slot[s].cid, modId |-> 0,
                         by |-> slot[s].branch])
    /\ Settle(s, Respond(slot[s], 200, <<"OK">>))
    /\ UNCHANGED <<metered, audit, deleting, fmToken, tokenExpiryTime, now,
                   nextTok, loginAt, failures, deliveries, term>>

(* PATCH records/{recordId} with modId: applied when modId is current; a    *)
(* stale modId is answered by CallFail.                                     *)
UpdateOk(s) ==
    /\ Running
    /\ slot[s].pc = "call" /\ slot[s].op = "update"
    /\ db[slot[s].rid].modId = slot[s].mod
    /\ db' = [db EXCEPT ![slot[s].rid].modId = @ + 1]
    /\ Settle(s, Respond(slot[s], 200, <<"OK">>))
    /\ UNCHANGED <<metered, audit, deleting, fmToken, tokenExpiryTime, now,
                   nextTok, loginAt, failures, deliveries, term>>

(* The database rejects the call in flight. *)
CallFail(s) ==
    /\ Running
    /\ slot[s].pc = "call"
    /\ Reject
    /\ \E kind \in Rejections :
         LET w  == slot[s].op \in Writes
             sl == [slot[s] EXCEPT
                      !.wFail = IF w THEN Tally(@) ELSE @,
                      !.unauth = IF kind = "unauth" THEN Tally(@) ELSE @,
                      !.wOther = @ \/ (w /\ kind = "other")]
         IN  Settle(s, MethodCatch(sl, kind))
    /\ UNCHANGED <<metered, audit, deleting, fmToken, tokenExpiryTime, now,
                   nextTok, loginAt, db, deliveries, term>>

----------------------------------------------------------------------------
(* The other callers of login and logout. *)

(* this.login() called by app.listen's callback (server.js:357-368) and by *)
(* the cron job (339-346), answered.  Issuing the call changes nothing, so *)
(* the login appears when its response runs; GET /health (322-336) logs in *)
(* through ensureValidToken and stores the same two fields.                *)
BackgroundLoginOk ==
    /\ Running
    /\ LoginStore
    /\ done' = NoTask
    /\ UNCHANGED <<metered, audit, deleting, now, db, failures, deliveries,
                   slot, term>>

(* Their catch blocks: the error is logged. *)
BackgroundLoginFail ==
    /\ Running
    /\ done' = NoTask
    /\ UNCHANGED <<metered, audit, deleting, fmToken, tokenExpiryTime, now,
                   nextTok, loginAt, db, failures, deliveries, slot, term>>

(* logout's assignments after the DELETE succeeded, server.js:169-170. *)
LogoutClear ==
    /\ fmToken' = Null
    /\ tokenExpiryTime' = Null
    /\ loginAt' = Null

(* logout's catch block, server.js:172-174: the error is logged. *)
LogoutCatch == UNCHANGED <<fmToken, tokenExpiryTime, loginAt>>

(* process.exit(0), server.js:352: the tasks in flight die with the process. *)
Exit ==
    /\ term' = "exited"
    /\ deleting' = Null
    /\ slot' = [s \in Slots |-> IdleSlot]
    /\ done' = NoTask

(* process.on('SIGTERM'): logout, server.js:156-167, up to the DELETE; *)
(* without a token logout returns at once.                             *)
Sigterm ==
    /\ term = "idle"
    /\ IF fmToken = Null THEN Exit
       ELSE /\ term' = "logout"
            /\ deleting' = fmToken
            /\ done' = NoTask
            /\ UNCHANGED slot
    /\ UNCHANGED <<metered, audit, fmToken, tokenExpiryTime, now, nextTok,
                   loginAt, db, failures, deliveries>>

(* The DELETE answered; logout returns and process.exit(0) runs. *)
LogoutOk ==
    /\ term = "logout"
    /\ LogoutClear
    /\ Exit
    /\ UNCHANGED <<metered, audit, now, nextTok, db, failures, deliveries>>

LogoutFail ==
    /\ term = "logout"
    /\ LogoutCatch
    /\ Exit
    /\ UNCHANGED <<metered, audit, now, nextTok, db, failures, deliveries>>

Tick ==
    /\ Running
    /\ now < MaxTime
    /\ now' = now + 1
    /\ done' = NoTask
    /\ UNCHANGED <<metered, audit, deleting, fmToken, tokenExpiryTime,
                   nextTok, loginAt, db, failures, deliveries, slot, term>>

----------------------------------------------------------------------------

(* The module's state when it has been loaded. *)
Loaded ==
    /\ fmToken = Null
    /\ tokenExpiryTime = Null
    /\ now = 1
    /\ nextTok = 0
    /\ loginAt = Null
    /\ db = <<>>
    /\ failures = 0
    /\ deliveries = 0
    /\ slot = [s \in Slots |-> IdleSlot]
    /\ done = NoTask
    /\ term = "idle"
    /\ deleting = Null

Init == Loaded /\ metered = TRUE /\ audit = TRUE

Next ==
    \/ \E s \in Slots : Arrive(s)
    \/ \E s \in Slots : LoginOk(s)
    \/ \E s \in Slots : LoginFail(s)
    \/ \E s \in Slots : FindOk(s)
    \/ \E s \in Slots : FindNone(s)
    \/ \E s \in Slots : CreateOk(s)
    \/ \E s \in Slots : UpdateOk(s)
    \/ \E s \in Slots : CallFail(s)
    \/ BackgroundLoginOk
    \/ BackgroundLoginFail
    \/ Sigterm
    \/ LogoutOk
    \/ LogoutFail
    \/ Tick

Spec == Init /\ [][Next]_vars

(* The platform delivers one request at a time: a request arrives only when *)
(* no task is in flight.                                                    *)
ArriveAlone(s) ==
    /\ \A o \in Slots : ~InFlight(o)
    /\ Arrive(s)

NextSeq ==
    \/ \E s \in Slots : ArriveAlone(s)
    \/ \E s \in Slots : LoginOk(s)
    \/ \E s \in Slots : LoginFail(s)
    \/ \E s \in Slots : FindOk(s)
    \/ \E s \in Slots : FindNone(s)
    \/ \E s \in Slots : CreateOk(s)
    \/ \E s \in Slots : UpdateOk(s)
    \/ \E s \in Slots : CallFail(s)
    \/ BackgroundLoginOk
    \/ BackgroundLoginFail
    \/ Sigterm
    \/ LogoutOk
    \/ LogoutFail
    \/ Tick

SpecSeq == Init /\ [][NextSeq]_vars

(* Deliveries that overlap: the requests that reach the database, which are *)
(* the ones that can meet another task; a request answered on arrival runs *)
(* to its response in one step.                                            *)
ArriveTask(s) ==
    /\ Arrive(s)
    /\ slot'[s].pc # "idle"

NextRace ==
    \/ \E s \in Slots : ArriveTask(s)
    \/ \E s \in Slots : LoginOk(s)
    \/ \E s \in Slots : LoginFail(s)
    \/ \E s \in Slots : FindOk(s)
    \/ \E s \in Slots : FindNone(s)
    \/ \E s \in Slots : CreateOk(s)
    \/ \E s \in Slots : UpdateOk(s)
    \/ \E s \in Slots : CallFail(s)
    \/ BackgroundLoginOk
    \/ BackgroundLoginFail
    \/ Sigterm
    \/ LogoutOk
    \/ LogoutFail
    \/ Tick

(* The claims about overlapping requests read the session and the records, *)
(* not the tasks' counters of their own calls.                             *)
InitRace == Loaded /\ metered = TRUE /\ audit = FALSE

SpecRace == InitRace /\ [][NextRace]_vars

----------------------------------------------------------------------------
(* The claims. *)

Tasks == { slot[s] : s \in Slots } \cup {done}

Calls(t) == t.nFind + t.nCreate + t.nUpdate

(* C1: a write whose call was answered 401 twice ends there with an error: *)
(* at most two attempts of the call and one login by its catch block.      *)
AuthRetryOnce ==
    \A t \in Tasks :
        t.unauth >= 2 =>
            /\ t.pc = "idle" /\ t.status = 500
            /\ t.relog <= 1
            /\ t.nCreate + t.nUpdate <= 2

(* C2: a createRecord that starts with a live session, has its first create *)
(* answered 401 and meets no other rejected call, issues exactly one login  *)
(* and then exactly one more create, and its request is answered 200.       *)
SingleAuthFailureRecovers ==
    \A t \in Tasks :
        (t.op = "create" /\ t.startValid /\ t.unauth = 1 /\ t.wFail = 1) =>
            /\ t.wLogin = 1 /\ t.relog = 1 /\ t.nUpdate = 0
            /\ t.pc = "login" => t.nCreate = 1
            /\ t.pc = "call" => t.nCreate = 2
            /\ t.pc = "idle" => t.nCreate = 2 /\ t.status = 200

SingleAuthFailureRecovered ==
    /\ done.op = "create" /\ done.startValid
    /\ done.unauth = 1 /\ done.wFail = 1 /\ failures = 1
    /\ done.wLogin = 1 /\ done.nCreate = 2 /\ done.status = 200

RecordsOf(c) == { i \in 1..Len(db) : db[i].call_id = c }

(* C3: when requests are delivered one after the other and no call is      *)
(* rejected, the database holds at most one record per call id.            *)
AtMostOneRecordPerCall ==
    failures = 0 => \A c \in CallIds : Cardinality(RecordsOf(c)) <= 1

(* C4: when requests are delivered one after the other and no call is      *)
(* rejected, a completed-family request with a call id looks it up once,   *)
(* then issues one create and no update when the call id was not yet in    *)
(* the database, and one update and no create when it was.                 *)
SecondDeliveryUpdates ==
    \A t \in Tasks :
        (failures = 0 /\ t.branch = "completed" /\ t.cid # NoCallId) =>
            /\ t.nFind = IF t.op \in Writes THEN 1 ELSE IF t.pc = "call" THEN 1 ELSE 0
            /\ t.op \in Writes =>
                 IF t.had THEN t.op = "update" /\ t.nCreate = 0
                 ELSE t.op = "create" /\ t.nUpdate = 0
            /\ t.nCreate + t.nUpdate <= 1
            /\ t.pc = "idle" =>
                 t.status = 200 /\ t.nCreate + t.nUpdate = 1

SecondDeliveryUpdated ==
    /\ failures = 0
    /\ done.branch = "completed" /\ done.had /\ done.status = 200
    /\ done.nCreate = 0 /\ done.nUpdate = 1
    /\ db = <<[call_id |-> done.cid, modId |-> 1, by |-> "completed"]>>

(* What a step that does not touch the database or the session leaves alone. *)
NoSideEffect == UNCHANGED <<fmToken, tokenExpiryTime, loginAt, nextTok, db>>

(* C5: a request with a parsed event other than the handshake whose        *)
(* signature does not verify never becomes a task in flight: the step that *)
(* receives it answers 401, issues no call and leaves session and database *)
(* as they were.                                                           *)
BadSignatureRejected ==
    [][ /\ \A s \in Slots : InFlight(s)' => slot'[s].verified
        /\ (done'.kind \in {"call", "other"} /\ ~done'.verified) =>
             /\ done'.status = 401 /\ done'.body = <<"Unauthorized">>
             /\ Calls(done') = 0 /\ done'.wLogin = 0
             /\ NoSideEffect ]_vars

BadSignatureAnswered ==
    /\ done.kind = "call" /\ done.shape = "ok" /\ ~done.verified
    /\ done.status = 401
    /\ fmToken # Null

(* C6: a handshake request that carries a plainToken is answered with      *)
(* {plainToken, encryptedToken} whether or not its signature verifies, and *)
(* the step issues no call and leaves session and database as they were.   *)
ChallengeBeforeVerification ==
    [][ (done'.kind = "handshake" /\ done'.shape # "nopayload") =>
             /\ done'.status = 200 /\ done'.body = Challenge
             /\ Calls(done') = 0 /\ done'.wLogin = 0
             /\ NoSideEffect ]_vars

ChallengeAnsweredUnverified ==
    /\ done.kind = "handshake" /\ ~done.verified
    /\ done.status = 200 /\ done.body = Challenge

(* C7: a verified request with a payload whose event is not a recognized   *)
(* one is answered 200 OK by the step that receives it, which issues no    *)
(* call and leaves session and database as they were.                      *)
UnrecognizedIsNoop ==
    [][ /\ \A s \in Slots : InFlight(s)' => slot'[s].kind = "call"
        /\ (done'.kind = "other" /\ done'.verified /\ done'.shape # "nopayload") =>
             /\ done'.status = 200 /\ done'.body = <<"OK">>
             /\ Calls(done') = 0 /\ done'.wLogin = 0
             /\ NoSideEffect ]_vars

UnrecognizedAnswered ==
    /\ done.kind = "other" /\ done.verified /\ done.shape = "ok"
    /\ done.status = 200
    /\ fmToken # Null

(* C8: every find, create and update is issued with a token that is present *)
(* and whose expiry has not passed, and the stored expiry is the time of    *)
(* the login that stored the token plus the lease.                          *)
LiveTokenOnEveryCall ==
    /\ \A t \in Tasks : t.tokOk
    /\ fmToken # Null => tokenExpiryTime = loginAt + LeaseDuration

CallAfterRenewal ==
    \E s \in Slots :
        /\ slot[s].pc = "call" /\ slot[s].tokOk
        /\ nextTok = 2 /\ loginAt = 2 /\ now = 2

(* C9: when logout has returned the local session is invalidated, whether  *)
(* the DELETE succeeded or failed.                                         *)
LogoutInvalidates ==
    term = "exited" => fmToken = Null /\ tokenExpiryTime = Null

(* C10: a request whose lookup succeeded and whose create or update was    *)
(* rejected with a non-authorization error is answered 200.                *)
WriteFailureStillOk ==
    (done.nFind = 1 /\ done.op \in Writes /\ done.wOther) => done.status = 200

(* C11: with requests one at a time and logins that succeed, a call of     *)
(* ensureValidToken (at the head of the request's first method, and of its *)
(* write after the lookup) awaits a login exactly when no token is stored  *)
(* or the stored expiry has been reached, and issues its call at once      *)
(* otherwise; when the awaited login has succeeded the call is issued      *)
(* under the fresh session without a second login.                         *)
EnsureValidLogsInOnce ==
    [][ \A s \in Slots :
          LET a == slot[s]
              b == slot'[s]
              enters == \/ a.pc = "idle" /\ b.pc # "idle"
                        \/ a.pc = "call" /\ a.op = "find" /\ b.op \in Writes
              stale == fmToken = Null \/ now >= tokenExpiryTime
          IN  /\ enters =>
                   /\ nextTok' = nextTok
                   /\ IF stale THEN b.pc = "login" /\ b.via = "ensure"
                               ELSE b.pc = "call"
              /\ (a.pc = "login" /\ a.via = "ensure" /\ b # a /\ b.pc # "idle"
                    /\ failures' = failures) =>
                   /\ nextTok' = nextTok + 1
                   /\ b.pc = "call" /\ b.op = a.op
                   /\ fmToken' # Null /\ now < tokenExpiryTime' ]_vars

RenewalAtExpiry ==
    \E s \in Slots :
        /\ slot[s].pc = "login" /\ slot[s].via = "ensure"
        /\ fmToken # Null /\ now = tokenExpiryTime

(* C12: a request whose body is not JSON, or lacks the payload or the      *)
(* payload object the handler reads, or whose write is rejected with a     *)
(* non-authorization error, is answered 500.                               *)
UnexpectedErrorAnswered500 ==
    ( \/ done.shape = "notjson"
      \/ done.shape = "nopayload" /\ (done.kind = "handshake" \/ done.verified)
      \/ done.shape = "noobject" /\ done.kind = "call" /\ done.verified
      \/ done.wOther )
    => done.status = 500

(* C13: a lookup whose find was answered 401 once is not over: the request *)
(* awaits one login and then issues the find a second time.                *)
FindRecoversFromUnauth ==
    \A t \in Tasks :
        (t.op = "find" /\ t.unauth = 1) =>
            /\ t.pc \in {"login", "call"}
            /\ t.pc = "call" => t.nFind = 2

(* C14: with requests one at a time and no rejected call, a lookup for a   *)
(* call id the database does not hold, answered with the "no records       *)
(* match" error, is not an error of the request: it goes on to one create  *)
(* and no update, and is answered 200.                                     *)
NotFoundCreates ==
    \A t \in Tasks :
        (failures = 0 /\ t.branch = "completed" /\ t.cid # NoCallId /\ ~t.had
           /\ t.nFind = 1 /\ ~(t.pc = "call" /\ t.op = "find")) =>
            /\ t.op = "create" /\ t.rid = 0
            /\ t.nUpdate = 0 /\ t.nCreate <= 1
            /\ t.pc = "idle" => t.nCreate = 1 /\ t.status = 200

NotFoundCreated ==
    /\ failures = 0
    /\ done.branch = "completed" /\ done.cid # NoCallId /\ ~done.had
    /\ done.nFind = 1 /\ done.nCreate = 1 /\ done.nUpdate = 0
    /\ done.status = 200
    /\ Cardinality(RecordsOf(done.cid)) = 1

----------------------------------------------------------------------------
(* Termination.  In an unmetered run the database may reject calls and     *)
(* hand out sessions without end.  Every awaited external call is answered *)
(* in the end, with success or with an error.                              *)

InitLive == Loaded /\ metered = FALSE /\ audit = FALSE

Answer(s) ==
    \/ LoginOk(s) \/ LoginFail(s)
    \/ FindOk(s) \/ FindNone(s)
    \/ CreateOk(s) \/ UpdateOk(s)
    \/ CallFail(s)

SpecLive ==
    /\ InitLive
    /\ [][NextSeq]_vars
    /\ \A s \in Slots : WF_vars(Answer(s))

(* C15: when every external call is answered in the end, a request that    *)
(* reached the database is answered in the end (unless the process exits), *)
(* whatever the database answers.                                          *)
RequestsTerminate ==
    \A s \in Slots : InFlight(s) ~> (~InFlight(s) \/ ~Running)

RejectedTokenDropped ==
    ( /\ done.op \in Writes /\ done.unauth >= 1 /\ ~done.wOther
      /\ done.status = 500
      /\ nextTok = 1 )
    => fmToken # 1

(* C18: whatever the interleaving of the logins of request tasks, of the   *)
(* timer and of startup with logout, every step leaves the token absent    *)
(* exactly when the expiry is absent; a step that changes either field is  *)
(* a successful login, which stores its own token and the expiry it        *)
(* computed itself, or logout's clearing of both; a failed login changes   *)
(* neither.                                                                *)
SessionWrittenTogether ==
    [][ /\ (fmToken' = Null) <=> (tokenExpiryTime' = Null)
        /\ <<fmToken, tokenExpiryTime>>' # <<fmToken, tokenExpiryTime>> =>
              \/ /\ nextTok' = nextTok + 1
                 /\ fmToken' = nextTok'
                 /\ tokenExpiryTime' = now + LeaseDuration
              \/ /\ term = "logout"
                 /\ fmToken' = Null
                 /\ tokenExpiryTime' = Null
        /\ ((\E s \in Slots : LoginFail(s)) \/ BackgroundLoginFail) =>
              UNCHANGED <<fmToken, tokenExpiryTime>>
      ]_vars

(* A task's login is in flight, another login has stored a live session    *)
(* since the task found none, and logout's DELETE is in flight as well.    *)
LoginsOverlap ==
    /\ term = "logout"
    /\ fmToken # Null /\ now < tokenExpiryTime
    /\ \E s \in Slots : slot[s].pc = "login" /\ slot[s].via = "ensure"

(* C19: a task updates only after its one lookup matched; the update names *)
(* the matched record, which holds the task's call id, and carries the     *)
(* modId the lookup returned; once an update has been rejected with an     *)
(* error other than 401 the request is over with status 500, and the       *)
(* updates it attempted are that one and one for each 401 answered with a  *)
(* new login before it.                                                    *)
UpdateTargetsMatch ==
    \A t \in Tasks :
        t.op = "update" =>
            /\ t.nFind = 1 /\ t.had
            /\ t.rid \in 1..Len(db)
            /\ db[t.rid].call_id = t.cid /\ t.cid # NoCallId
            /\ db[t.rid].modId = IF t.pc = "idle" /\ t.status = 200
                                 THEN t.mod + 1 ELSE t.mod
            /\ t.nCreate = 0
            /\ t.wOther =>
                  /\ t.pc = "idle" /\ t.status = 500
                  /\ t.nUpdate = t.unauth + 1

(* An update rejected with an error other than 401: one attempt, answered  *)
(* 500, the record as it was.                                              *)
UpdateRejectedOnce ==
    /\ done.op = "update" /\ done.wOther /\ done.unauth = 0
    /\ done.nUpdate = 1 /\ done.status = 500
    /\ db[done.rid].modId = done.mod

(* C20: when logout clears the stored session after its DELETE succeeded,  *)
(* the token it clears is the one the DELETE named; a token that a login   *)
(* stored while the DELETE was in flight is not dropped with its remote    *)
(* session still open.                                                     *)
LogoutClearsDeleted ==
    [][ (term = "logout" /\ fmToken # Null /\ fmToken' = Null) =>
            fmToken = deleting ]_vars

====
